---- MODULE Spec2Model ----
(***************************************************************************)
(* The particle simulation engines of the fluid simulator: the sequential  *)
(* FluidEngine (src/services/FluidEngine.ts) and the texture-based         *)
(* GPUFluidEngine (src/services/GPUFluidEngine.ts with the compute shaders *)
(* of src/shaders/physicsShaders.ts).                                      *)
(*                                                                         *)
(* Numbers.  Every real quantity of the code is a fixed-point integer in   *)
(* thousandths: a length of 0.3 is 300, a time step of 0.1 s is 100, the   *)
(* sentinel 10000 is 10000000.  A product of two such quantities is        *)
(* brought back to thousandths by Div(_, 1000), which rounds toward zero.  *)
(* Float32 rounding, NaN and infinities are outside the model.             *)
(***************************************************************************)
EXTENDS Integers, Sequences, FiniteSets, TLC

VARIABLES kind, cpu, gpu, last, ops, frag

vars == <<kind, cpu, gpu, last, ops, frag>>

----------------------------------------------------------------------------
(* Bounds of the model                                                     *)

\* number of calls (addParticles, step, reset) made on the engine
MaxOps == 4
\* config.maxParticles the engine is constructed with
Capacity == 2

----------------------------------------------------------------------------
(* Arithmetic helpers                                                      *)

Max(a, b) == IF a >= b THEN a ELSE b
Min(a, b) == IF a <= b THEN a ELSE b
Abs(a) == IF a >= 0 THEN a ELSE -a

\* a / b for b > 0, rounded toward zero
Div(a, b) == IF a >= 0 THEN a \div b ELSE -((-a) \div b)

\* Math.floor(a / b) for b > 0
Floor(a, b) == a \div b

RECURSIVE SqrtSearch(_, _, _)
SqrtSearch(n, lo, hi) ==
  IF lo >= hi THEN lo
  ELSE LET mid == (lo + hi + 1) \div 2
       IN IF mid * mid <= n THEN SqrtSearch(n, mid, hi)
          ELSE SqrtSearch(n, lo, mid - 1)

\* Math.sqrt / sqrt(): the integer part of the root; n is in millionths
\* (a squared length), the result in thousandths
Sqrt(n) == SqrtSearch(n, 0, 46340)

\* Math.ceil(Math.sqrt(n)) for an integer n >= 0
CeilSqrt(n) == LET r == Sqrt(n) IN IF r * r = n THEN r ELSE r + 1

RECURSIVE CbrtSearch(_, _)
CbrtSearch(n, g) == IF (g + 1) * (g + 1) * (g + 1) <= n THEN CbrtSearch(n, g + 1) ELSE g

CeilCbrt_Floor(n) == IF n >= 0 THEN CbrtSearch(n, 0) ELSE -CbrtSearch(-n, 0)

\* Math.ceil(Math.cbrt(n)) for an integer n of either sign
CeilCbrt(n) ==
  IF n >= 0
    THEN LET g == CbrtSearch(n, 0) IN IF g * g * g = n THEN g ELSE g + 1
    ELSE -CbrtSearch(-n, 0)

----------------------------------------------------------------------------
(* Vectors                                                                 *)

Axes == 1..3

\* the vector with the components F(1), F(2), F(3)
Vec3(F(_)) == <<F(1), F(2), F(3)>>

VAdd(a, b) == <<a[1] + b[1], a[2] + b[2], a[3] + b[3]>>
VSub(a, b) == <<a[1] - b[1], a[2] - b[2], a[3] - b[3]>>
VNeg(a) == <<-a[1], -a[2], -a[3]>>
Dot(a, b) == a[1] * b[1] + a[2] * b[2] + a[3] * b[3]
Zero3 == <<0, 0, 0>>

\* the value 10000 that marks an unused position slot
Sentinel == 10000000

----------------------------------------------------------------------------
(* Inputs                                                                  *)

\* FluidConfig: the fields the engines read, in thousandths (stiffness and
\* maxParticles in units)
DefaultConfig ==
  [particleRadius |-> 300, visualRatio |-> 700, viscosity |-> 40,
   restDensity |-> 50000, stiffness |-> 500, surfaceTension |-> 50,
   boundarySize |-> 10000, maxParticles |-> Capacity]

\* the config the engine is constructed with
InitConfig == DefaultConfig

\* results of Math.random() / hash(): values of [0, 1)
RandLo == <<0, 0, 0>>
RandHi == <<999, 999, 999>>
RandMix == <<0, 500, 999>>

----------------------------------------------------------------------------
(* FluidEngine: construction, addParticles, reset                          *)

\* new FluidEngine(config)
FluidEngine_constructor(config) ==
  [maxParticles |-> config.maxParticles,
   positions |-> [i \in 0..(config.maxParticles - 1) |-> <<Sentinel, Sentinel, Sentinel>>],
   oldPositions |-> [i \in 0..(config.maxParticles - 1) |-> <<Sentinel, Sentinel, Sentinel>>],
   velocities |-> [i \in 0..(config.maxParticles - 1) |-> Zero3],
   densities |-> [i \in 0..(config.maxParticles - 1) |-> 0],
   baseRadius |-> config.particleRadius,
   grid |-> <<>>,
   particleCount |-> 0]

\* baseRadius * 2.2
getParticleSpacing(baseRadius) == Div(baseRadius * 22, 10)

Jitter_Wide(random, spacing) == Div((random - 500) * spacing * 6, 10000)

\* (random - 0.5) * spacing * 0.3
Jitter(random, spacing) == Div((random - 500) * spacing * 3, 10000)

\* the body of the innermost loop: particle start + added is written at lattice
\* node (x, y, z); c holds the locals of addParticles
AddBody(S, x, y, z, c) ==
  LET i == c.start + S.added
      r == c.rnd[S.added + 1]
      p == <<c.origin[1] - c.offset + x * c.spacing + Jitter(r[1], c.spacing),
             c.origin[2] - c.offset + y * c.spacing + Jitter(r[2], c.spacing),
             c.origin[3] - c.offset + z * c.spacing + Jitter(r[3], c.spacing)>>
  IN [positions |-> [S.positions EXCEPT ![i] = p],
      oldPositions |-> [S.oldPositions EXCEPT ![i] = p],
      added |-> S.added + 1]

RECURSIVE AddLoopZ(_, _, _, _, _)
AddLoopZ(S, x, y, z, c) ==
  IF z < c.gridDim /\ S.added < c.end - c.start
    THEN AddLoopZ(AddBody(S, x, y, z, c), x, y, z + 1, c)
    ELSE S

RECURSIVE AddLoopY(_, _, _, _)
AddLoopY(S, x, y, c) ==
  IF y < c.gridDim /\ S.added < c.end - c.start
    THEN AddLoopY(AddLoopZ(S, x, y, 0, c), x, y + 1, c)
    ELSE S

RECURSIVE AddLoopX(_, _, _)
AddLoopX(S, x, c) ==
  IF x < c.gridDim /\ S.added < c.end - c.start
    THEN AddLoopX(AddLoopY(S, x, 0, c), x + 1, c)
    ELSE S

\* const end = Math.min(this.maxParticles, start + count)
FluidEngine_end(maxParticles, start, count) == Min(maxParticles, start + count)

FluidEngine_newCount_End(start, added, end) == end

\* this.particleCount = start + added
FluidEngine_newCount(start, added, end) == start + added

\* FluidEngine.addParticles(count, origin); rnd[k] holds the three results of
\* Math.random() drawn for the k-th particle written
FluidEngine_addParticles(E, count, origin, rnd) ==
  LET start == E.particleCount
      end == FluidEngine_end(E.maxParticles, start, count)
      spacing == getParticleSpacing(E.baseRadius)
      gridDim == CeilCbrt(count)
      offset == Div((gridDim - 1) * spacing, 2)
      c == [start |-> start, end |-> end, spacing |-> spacing, gridDim |-> gridDim,
            offset |-> offset, origin |-> origin, rnd |-> rnd]
      S == AddLoopX([positions |-> E.positions, oldPositions |-> E.oldPositions,
                     added |-> 0], 0, c)
  IN [E EXCEPT !.positions = S.positions,
               !.oldPositions = S.oldPositions,
               !.particleCount = FluidEngine_newCount(start, S.added, end)]

FluidEngine_reset_NoFill(E) == [E EXCEPT !.particleCount = 0, !.grid = <<>>]

\* FluidEngine.reset()
FluidEngine_reset(E) ==
  [E EXCEPT !.particleCount = 0,
            !.positions = [i \in DOMAIN E.positions |-> <<Sentinel, Sentinel, Sentinel>>],
            !.grid = <<>>]

----------------------------------------------------------------------------
(* FluidEngine.step                                                        *)

\* const h = 1.7
h == 1700
\* const poly6 = 315 / (64 * Math.PI * Math.pow(h, 9)), in millionths
poly6 == 13211
\* const spikyGrad = -45 / (Math.PI * Math.pow(h, 6)), in thousandths
spikyGrad == -593
\* const constraintIterations = 3
constraintIterations == 3

\* w*w*w * poly6 for w = h2 - d2 (w in millionths, the result in thousandths)
Poly6Term(w) ==
  LET wc == Div(w, 10000)
  IN Div(Div(wc * wc * wc, 1000) * poly6, 1000000)

\* the locals step derives from its arguments
StepLocals(dt, config, gravityVec) ==
  LET visualRadius == config.particleRadius
      smoothness == Max(1000, config.visualRatio)
      physicsRadius == Div(visualRadius * 1000, smoothness)
      minDist == physicsRadius * 2
  IN [physicsRadius |-> physicsRadius,
      h2 |-> h * h,
      effectiveRestDensity |-> config.restDensity,
      minDist |-> minDist,
      cellSize |-> Max(h, minDist),
      boundary |-> Div(config.boundarySize, 2),
      boundaryOffset |-> physicsRadius,
      wallRepelDist |-> Div(physicsRadius * 12, 10),
      sDt |-> dt,
      stiffness |-> config.stiffness,
      viscosity |-> config.viscosity,
      gravityVec |-> gravityVec]

\* a prediction that does not save the position the particle had before it
Predict_KeepOld(S, i, c) ==
  LET v == Vec3(LAMBDA a : S.velocities[i][a] + Div(c.gravityVec[a] * c.sDt, 1000))
  IN [S EXCEPT !.velocities[i] = v,
               !.positions[i] = Vec3(LAMBDA a : S.positions[i][a] + Div(v[a] * c.sDt, 1000))]

\* "Apply gravity and predict positions", for particle i
Predict(S, i, c) ==
  LET v == Vec3(LAMBDA a : S.velocities[i][a] + Div(c.gravityVec[a] * c.sDt, 1000))
  IN [S EXCEPT !.oldPositions[i] = S.positions[i],
               !.velocities[i] = v,
               !.positions[i] = Vec3(LAMBDA a : S.positions[i][a] + Div(v[a] * c.sDt, 1000))]

RECURSIVE PredictLoop(_, _, _)
PredictLoop(S, i, c) ==
  IF i < S.particleCount THEN PredictLoop(Predict(S, i, c), i + 1, c) ELSE S

\* the key of the grid cell of position p
CellKey(p, cellSize) ==
  <<Floor(p[1], cellSize), Floor(p[2], cellSize), Floor(p[3], cellSize)>>

RECURSIVE updateGridLoop(_, _, _, _, _)
updateGridLoop(grid, positions, i, particleCount, cellSize) ==
  IF i >= particleCount THEN grid
  ELSE IF positions[i][1] > 5000000
    THEN updateGridLoop(grid, positions, i + 1, particleCount, cellSize)
  ELSE LET k == CellKey(positions[i], cellSize)
           cell == IF k \in DOMAIN grid THEN grid[k] ELSE <<>>
       IN updateGridLoop([q \in DOMAIN grid \cup {k} |->
                             IF q = k THEN Append(cell, i) ELSE grid[q]],
                         positions, i + 1, particleCount, cellSize)

\* FluidEngine.updateGrid(cellSize): the grid is cleared and refilled
updateGrid(positions, particleCount, cellSize) ==
  updateGridLoop(<<>>, positions, 0, particleCount, cellSize)

\* dx*dx + dy*dy + dz*dz between particles i and n
Dist2(positions, i, n) ==
  LET d == VSub(positions[i], positions[n]) IN Dot(d, d)

\* the neighbours of i found in the cells n..26 of the 3x3x3 block around
\* cell g, in the order the loops visit them
RECURSIVE CellScan(_, _, _, _, _, _)
CellScan(positions, grid, i, g, n, searchRadius) ==
  IF n > 26 THEN <<>>
  ELSE LET k == <<g[1] + (n \div 9) - 1, g[2] + ((n \div 3) % 3) - 1, g[3] + (n % 3) - 1>>
           cell == IF k \in DOMAIN grid THEN grid[k] ELSE <<>>
           Near(m) == m # i /\ Dist2(positions, i, m) < searchRadius
       IN SelectSeq(cell, Near) \o CellScan(positions, grid, i, g, n + 1, searchRadius)

\* const neighbors: number[] of particle i
Neighbors(positions, grid, i, c) ==
  CellScan(positions, grid, i, CellKey(positions[i], c.cellSize), 0,
           Max(c.h2, c.minDist * c.minDist))

RECURSIVE DensitySum(_, _, _, _, _)
DensitySum(positions, i, neighbors, n, c) ==
  IF n > Len(neighbors) THEN 0
  ELSE LET d2 == Dist2(positions, i, neighbors[n])
       IN (IF d2 < c.h2 THEN Poly6Term(c.h2 - d2) ELSE 0)
          + DensitySum(positions, i, neighbors, n + 1, c)

Density_NoSelf(positions, i, neighbors, c) == DensitySum(positions, i, neighbors, 1, c)

\* the density of particle i: neighbour terms, then the self-contribution
Density(positions, i, neighbors, c) ==
  DensitySum(positions, i, neighbors, 1, c) + Poly6Term(c.h2)

\* clampedPressure of a particle of the given density
ClampedPressure(density, c) ==
  LET densityError == Max(0, density - c.effectiveRestDensity)
      pressure == Div(densityError * c.stiffness, 1000)
  IN Min(pressure, Div(c.effectiveRestDensity, 2))

\* collisionStrength = 0.5 + stiffnessNorm * 0.3
CollisionStrength(c) == 500 + Div(Div(c.stiffness * 1000, 2000) * 3, 10)

\* the displacement (mx, my, mz) the pair loop computes for i against j
PairMove(positions, i, j, clampedPressure, c) ==
  LET dv == VSub(positions[i], positions[j])
      d == Sqrt(Dot(dv, dv))
      kernelGrad == Div(spikyGrad * Div((h - d) * (h - d), 1000), 1000)
      force == Div(clampedPressure * kernelGrad, 1000)
      overlap == c.minDist - d
      push == Div(overlap * CollisionStrength(c), 1000)
  IN Vec3(LAMBDA a :
        (IF d < h THEN Div(dv[a] * force, d) ELSE 0)
        + (IF d < c.minDist THEN Div(dv[a] * push, d) ELSE 0))

PairStep_Nudge(positions, i, j, clampedPressure, c) ==
  LET dv == VSub(positions[i], positions[j])
      m == PairMove(positions, i, j, clampedPressure, c)
  IN IF Sqrt(Dot(dv, dv)) < 1
       THEN [positions EXCEPT ![i] = VAdd(positions[i], <<c.minDist, 0, 0>>)]
       ELSE [positions EXCEPT ![i] = VAdd(positions[i], m),
                              ![j] = VSub(positions[j], m)]

PairStep_OneSided(positions, i, j, clampedPressure, c) ==
  LET dv == VSub(positions[i], positions[j])
      m == PairMove(positions, i, j, clampedPressure, c)
  IN IF Sqrt(Dot(dv, dv)) < 1 THEN positions
     ELSE [positions EXCEPT ![i] = VAdd(positions[i], m)]

\* one pass of "for (const j of neighbors)": the pair is skipped when
\* d < 0.001, otherwise i moves by m and j by -m
PairStep(positions, i, j, clampedPressure, c) ==
  LET dv == VSub(positions[i], positions[j])
      d == Sqrt(Dot(dv, dv))
      m == PairMove(positions, i, j, clampedPressure, c)
  IN IF d < 1 THEN positions
     ELSE [positions EXCEPT ![i] = VAdd(positions[i], m),
                            ![j] = VSub(positions[j], m)]

RECURSIVE PairLoop(_, _, _, _, _, _)
PairLoop(positions, i, neighbors, n, clampedPressure, c) ==
  IF n > Len(neighbors) THEN positions
  ELSE PairLoop(PairStep(positions, i, neighbors[n], clampedPressure, c),
                i, neighbors, n + 1, clampedPressure, c)

\* the body of "for (let i ...)" inside a constraint iteration
Constrain(S, i, c) ==
  LET neighbors == Neighbors(S.positions, S.grid, i, c)
      density == Density(S.positions, i, neighbors, c)
  IN [S EXCEPT !.densities[i] = density,
               !.positions = PairLoop(S.positions, i, neighbors, 1,
                                      ClampedPressure(density, c), c)]

RECURSIVE ConstrainLoop(_, _, _)
ConstrainLoop(S, i, c) ==
  IF i < S.particleCount THEN ConstrainLoop(Constrain(S, i, c), i + 1, c) ELSE S

RECURSIVE IterLoop(_, _, _)
IterLoop(S, iter, c) ==
  IF iter < constraintIterations THEN IterLoop(ConstrainLoop(S, 0, c), iter + 1, c) ELSE S

BoundaryAxis_SoftOnly(p, v, c) ==
  LET minBound == -c.boundary + c.boundaryOffset
      maxBound == c.boundary - c.boundaryOffset
      distToMin == p - minBound
      distToMax == maxBound - p
      p1 == IF distToMin < c.wallRepelDist
              THEN p + Div(c.wallRepelDist - distToMin, 10) ELSE p
  IN <<IF distToMax < c.wallRepelDist
         THEN p1 - Div(c.wallRepelDist - distToMax, 10) ELSE p1, v>>

\* "Boundary constraints" on one coordinate: <<position, velocity>> after the
\* soft repulsion and the hard boundary
BoundaryAxis(p, v, c) ==
  LET minBound == -c.boundary + c.boundaryOffset
      maxBound == c.boundary - c.boundaryOffset
      distToMin == p - minBound
      distToMax == maxBound - p
      p1 == IF distToMin < c.wallRepelDist
              THEN p + Div(c.wallRepelDist - distToMin, 10) ELSE p
      p2 == IF distToMax < c.wallRepelDist
              THEN p1 - Div(c.wallRepelDist - distToMax, 10) ELSE p1
  IN IF p2 < minBound THEN <<minBound, Div(v * (-2), 10)>>
     ELSE IF p2 > maxBound THEN <<maxBound, Div(v * (-2), 10)>>
     ELSE <<p2, v>>

\* "Update velocities from position change" and "Viscosity damping"
VelocityUpdate(p, old, c) ==
  LET vL == 1000 - Div(c.viscosity * c.sDt, 1000)
  IN Vec3(LAMBDA a : Div(Div((p[a] - old[a]) * 1000, c.sDt) * vL, 1000))

Finish_NoReconstruct(S, i, c) ==
  LET b == Vec3(LAMBDA a : BoundaryAxis(S.positions[i][a], S.velocities[i][a], c))
  IN [S EXCEPT !.positions[i] = Vec3(LAMBDA a : b[a][1]),
               !.velocities[i] = Vec3(LAMBDA a : b[a][2])]

\* the body of the last loop of step, for particle i
Finish(S, i, c) ==
  LET b == Vec3(LAMBDA a : BoundaryAxis(S.positions[i][a], S.velocities[i][a], c))
      p == Vec3(LAMBDA a : b[a][1])
      S1 == [S EXCEPT !.positions[i] = p,
                      !.velocities[i] = Vec3(LAMBDA a : b[a][2])]
  IN [S1 EXCEPT !.velocities[i] = VelocityUpdate(S1.positions[i], S1.oldPositions[i], c)]

RECURSIVE FinishLoop(_, _, _)
FinishLoop(S, i, c) ==
  IF i < S.particleCount THEN FinishLoop(Finish(S, i, c), i + 1, c) ELSE S

FluidEngine_step_Reordered(E, dt, config, gravityVec) ==
  LET c == StepLocals(dt, config, gravityVec)
      S1 == PredictLoop(E, 0, c)
      S2 == [S1 EXCEPT !.grid = updateGrid(S1.positions, S1.particleCount, c.cellSize)]
  IN IF E.particleCount = 0 THEN E ELSE IterLoop(FinishLoop(S2, 0, c), 0, c)

\* FluidEngine.step(dt, config, gravityVec)
FluidEngine_step(E, dt, config, gravityVec) ==
  LET c == StepLocals(dt, config, gravityVec)
      S1 == PredictLoop(E, 0, c)
      S2 == [S1 EXCEPT !.grid = updateGrid(S1.positions, S1.particleCount, c.cellSize)]
      S3 == IterLoop(S2, 0, c)
  IN IF E.particleCount = 0 THEN E ELSE FinishLoop(S3, 0, c)

----------------------------------------------------------------------------
(* GPUFluidEngine: render targets, construction, addParticles, reset       *)

\* a texel of a position texture is <<x, y, z, w>>, w = 1 for an active particle
InactiveTexel == <<Sentinel, Sentinel, Sentinel, 0>>
ZeroTexel == <<0, 0, 0, 0>>

Xyz(t) == <<t[1], t[2], t[3]>>
Texel(v, w) == <<v[1], v[2], v[3], w>>

\* GPUComputeTarget: two render targets and the index of the one read
GPUComputeTarget(tex) == [renderTarget1 |-> tex, renderTarget2 |-> tex, current |-> 0]
writeTarget_Read(T) == IF T.current = 0 THEN "renderTarget1" ELSE "renderTarget2"

\* which of the two render targets the getters read and write return
readTarget(T) == IF T.current = 0 THEN "renderTarget1" ELSE "renderTarget2"
writeTarget(T) == IF T.current = 0 THEN "renderTarget2" ELSE "renderTarget1"
read(T) == T[readTarget(T)]
write(T) == T[writeTarget(T)]
swap(T) == [T EXCEPT !.current = 1 - T.current]

\* renderer.setRenderTarget(T.write); renderer.render(...): the pass output
\* replaces the texture of the write target
render(T, tex) == [T EXCEPT ![writeTarget(T)] = tex]

\* copyPositionShader: gl_FragColor = texture2D(tPosition, vUv)
copyPositionShader(tPosition) == [t \in DOMAIN tPosition |-> tPosition[t]]

\* GPUFluidEngine.initializeTextures(): both targets of the three ping-pong
\* pairs are overwritten; the read index of no pair is touched
initializeTextures(G) ==
  LET texels == 0..(G.textureSize * G.textureSize - 1)
      texture == [t \in texels |-> InactiveTexel]
      velTexture == [t \in texels |-> ZeroTexel]
  IN [G EXCEPT !.positionTarget.renderTarget1 = copyPositionShader(texture),
               !.positionTarget.renderTarget2 = copyPositionShader(texture),
               !.oldPositionTarget.renderTarget1 = copyPositionShader(texture),
               !.oldPositionTarget.renderTarget2 = copyPositionShader(texture),
               !.velocityTarget.renderTarget1 = copyPositionShader(velTexture),
               !.velocityTarget.renderTarget2 = copyPositionShader(velTexture)]

\* new GPUFluidEngine(config, renderer); a render target is created cleared
GPUFluidEngine_constructor(config) ==
  LET size == CeilSqrt(config.maxParticles)
      blank == [t \in 0..(size * size - 1) |-> ZeroTexel]
  IN initializeTextures(
       [maxParticles |-> config.maxParticles,
        baseRadius |-> config.particleRadius,
        textureSize |-> size,
        positionTarget |-> GPUComputeTarget(blank),
        velocityTarget |-> GPUComputeTarget(blank),
        oldPositionTarget |-> GPUComputeTarget(blank),
        densityTarget |-> blank,
        forceTarget |-> blank,
        particleCount |-> 0])

\* addParticlesShader for the texel idx; rnd[k] holds the three values of
\* hash() for the k-th added particle
addParticlesShader(tPosition, idx, uOrigin, uSpacing, uStartIndex, uAddCount, uGridDim, rnd) ==
  IF idx >= uStartIndex /\ idx < uStartIndex + uAddCount
    THEN LET localIdx == idx - uStartIndex
             gx == localIdx % uGridDim
             gy == (localIdx \div uGridDim) % uGridDim
             gz == localIdx \div (uGridDim * uGridDim)
             offset == Div((uGridDim - 1) * uSpacing, 2)
             r == rnd[localIdx + 1]
         IN <<uOrigin[1] + gx * uSpacing - offset + Jitter(r[1], uSpacing),
              uOrigin[2] + gy * uSpacing - offset + Jitter(r[2], uSpacing),
              uOrigin[3] + gz * uSpacing - offset + Jitter(r[3], uSpacing),
              1>>
    ELSE tPosition[idx]

\* initVelocityShader for the texel idx
initVelocityShader(tVelocity, idx, uStartIndex, uAddCount) ==
  IF idx >= uStartIndex /\ idx < uStartIndex + uAddCount
    THEN <<0, 0, 0, 1>>
    ELSE tVelocity[idx]

GPUFluidEngine_end_NoClamp(maxParticles, start, count) == start + count

\* const end = Math.min(this.maxParticles, start + count)
GPUFluidEngine_end(maxParticles, start, count) == Min(maxParticles, start + count)

\* GPUFluidEngine.addParticles(count, origin)
GPUFluidEngine_addParticles(G, count, origin, rnd) ==
  LET start == G.particleCount
      end == GPUFluidEngine_end(G.maxParticles, start, count)
      actualCount == end - start
      gridDim == CeilCbrt(actualCount)
      texels == 0..(G.textureSize * G.textureSize - 1)
      pos1 == swap(render(G.positionTarget,
                [t \in texels |-> addParticlesShader(read(G.positionTarget), t, origin,
                     getParticleSpacing(G.baseRadius), start, actualCount, gridDim, rnd)]))
      old1 == swap(render(G.oldPositionTarget, copyPositionShader(read(pos1))))
      vel1 == swap(render(G.velocityTarget,
                [t \in texels |-> initVelocityShader(read(G.velocityTarget), t, start, actualCount)]))
  IN IF actualCount <= 0 THEN G
     ELSE [G EXCEPT !.positionTarget = pos1,
                    !.oldPositionTarget = old1,
                    !.velocityTarget = vel1,
                    !.particleCount = end]

GPUFluidEngine_reset_Swap(G) ==
  LET R == initializeTextures([G EXCEPT !.particleCount = 0])
  IN [R EXCEPT !.positionTarget = swap(R.positionTarget)]

\* GPUFluidEngine.reset()
GPUFluidEngine_reset(G) == initializeTextures([G EXCEPT !.particleCount = 0])

----------------------------------------------------------------------------
(* GPUFluidEngine.step and its compute shaders                             *)

\* the loop bound ${maxNeighbors * 100} of the shaders built with
\* createDensityShader(64) and createForceShader(64)
LoopLimit == 6400

\* velocityIntegrateShader for the texel t
velocityIntegrateShader(tVelocity, t, uGravity, uDt) ==
  LET vel == tVelocity[t]
  IN <<vel[1] + Div(uGravity[1] * uDt, 1000),
       vel[2] + Div(uGravity[2] * uDt, 1000),
       vel[3] + Div(uGravity[3] * uDt, 1000),
       vel[4]>>

\* integrateShader for the texel t
integrateShader(tPosition, tVelocity, t, uGravity, uDt) ==
  LET pos == tPosition[t]
      vel == tVelocity[t]
      newVel == Vec3(LAMBDA a : vel[a] + Div(uGravity[a] * uDt, 1000))
  IN IF pos[4] < 1 THEN pos
     ELSE <<pos[1] + Div(newVel[1] * uDt, 1000),
            pos[2] + Div(newVel[2] * uDt, 1000),
            pos[3] + Div(newVel[3] * uDt, 1000),
            pos[4]>>

\* h^6 and h^9 from h2 = h * h (h2 in millionths, the results in thousandths)
Pow3(h2) == LET m == Div(h2, 1000) IN Div(Div(m * m, 1000) * m, 1000)
Pow9Half(h2) ==
  LET m == Div(h2, 1000)
      h4 == Div(m * m, 1000)
  IN Div(Div(h4 * h4, 1000) * Sqrt(h2), 1000)

\* float poly6(float r2, float h2) of the density shader, in thousandths
poly6_glsl(r2, h2) ==
  IF r2 >= h2 THEN 0
  ELSE LET diff == Div(h2 - r2, 10000)
           coeff == Div(315000000, Div(Div(64 * 3141593, 1000000) * Pow9Half(h2), 1000))
       IN Div(Div(diff * diff * diff, 1000) * coeff, 1000000)

\* the value the density loop adds for particle j, seen from the texel t
DensityTerm(tPosition, t, j, h2) ==
  LET diff == VSub(Xyz(tPosition[t]), Xyz(tPosition[j]))
      r2 == Dot(diff, diff)
  IN IF j = t THEN 0
     ELSE IF tPosition[j][4] < 1 THEN 0
     ELSE IF r2 < h2 THEN poly6_glsl(r2, h2)
     ELSE 0

\* what the turns lo..hi-1 of the density loop add, summed by halves
RECURSIVE DensityTurns(_, _, _, _, _)
DensityTurns(tPosition, t, lo, hi, h2) ==
  IF lo >= hi THEN 0
  ELSE IF hi = lo + 1 THEN DensityTerm(tPosition, t, lo, h2)
  ELSE LET mid == (lo + hi) \div 2
       IN DensityTurns(tPosition, t, lo, mid, h2) + DensityTurns(tPosition, t, mid, hi, h2)

\* for (int j = ...; j < LoopLimit; j++) { if (j >= uParticleCount) break; ... }
DensityLoop(tPosition, t, j, h2, uParticleCount) ==
  DensityTurns(tPosition, t, j, Min(LoopLimit, uParticleCount), h2)

\* the shader of createDensityShader(64) for the texel t
densityShader(tPosition, t, uKernelRadius, uRestDensity, uParticleCount) ==
  LET h2 == uKernelRadius * uKernelRadius
      density == poly6_glsl(0, h2) + DensityLoop(tPosition, t, 0, h2, uParticleCount)
      pressure == Max(0, density - uRestDensity)
  IN IF tPosition[t][4] < 1 THEN ZeroTexel
     ELSE <<density, pressure, 0, 1>>

\* vec3 spikyGrad(vec3 r, float d, float h) of the force shader, for axis a
spikyGrad_glsl(r, d, hh, a) ==
  IF d >= hh \/ d < 1 THEN 0
  ELSE LET coeff == -Div(45000000, Div(3142 * Pow3(hh * hh), 1000))
           term == Div((hh - d) * (hh - d), 1000)
       IN Div(Div(coeff * term, 1000) * r[a], d)

\* float cohesionKernel(float d, float h) of the force shader
cohesionKernel(d, hh) ==
  IF d >= hh \/ d < 1 THEN 0
  ELSE LET h3 == Div(Div(hh * hh, 1000) * hh, 1000)
           h6 == Div(h3 * h3, 1000)
           h9 == Div(h6 * h3, 1000)
           c == Div(h6, 64)
           hMinusR == hh - d
           hMinusR3 == Div(Div(hMinusR * hMinusR, 1000) * hMinusR, 1000)
           r3 == Div(Div(d * d, 1000) * d, 1000)
           \* k * hMinusR3 * r3 with k = 32 / (pi * h9)
           kTerm == Div(Div(32 * hMinusR3, 1) * r3, Div(3142 * Max(h9, 1), 1000))
       IN IF 2 * d > hh THEN kTerm ELSE 2 * kTerm - c

\* what one turn of the force loop adds to <<force, cohesionForce>> for particle j
ForceTerm(tPosition, t, j, pressure_i, u) ==
  LET diff == VSub(Xyz(tPosition[t]), Xyz(tPosition[j]))
      d == Sqrt(Dot(diff, diff))
      coh == cohesionKernel(d, u.uCohesionRadius)
      overlap == u.uMinDist - d
      skip == j = t \/ tPosition[j][4] < 1 \/ d < 1
  IN [force |-> Vec3(LAMBDA a :
         IF skip THEN 0
         ELSE (IF d < u.uKernelRadius
                 THEN Div(spikyGrad_glsl(diff, d, u.uKernelRadius, a) * pressure_i, 1000)
                 ELSE 0)
              + (IF d < u.uMinDist
                   THEN Div(Div(diff[a] * overlap, d) * u.uCollisionStrength, 1000)
                   ELSE 0)),
      cohesion |-> Vec3(LAMBDA a :
         IF skip \/ ~(d < u.uCohesionRadius) THEN 0
         ELSE -Div(diff[a] * coh, d))]

\* what the turns lo..hi-1 of the force loop add, summed by halves
RECURSIVE ForceTurns(_, _, _, _, _, _)
ForceTurns(tPosition, t, lo, hi, pressure_i, u) ==
  IF lo >= hi THEN [force |-> Zero3, cohesion |-> Zero3]
  ELSE IF hi = lo + 1 THEN ForceTerm(tPosition, t, lo, pressure_i, u)
  ELSE LET mid == (lo + hi) \div 2
           one == ForceTurns(tPosition, t, lo, mid, pressure_i, u)
           rest == ForceTurns(tPosition, t, mid, hi, pressure_i, u)
       IN [force |-> VAdd(one.force, rest.force),
           cohesion |-> VAdd(one.cohesion, rest.cohesion)]

\* for (int j = ...; j < LoopLimit; j++) { if (j >= uParticleCount) break; ... }
ForceLoop(tPosition, t, j, pressure_i, u) ==
  ForceTurns(tPosition, t, j, Min(LoopLimit, u.uParticleCount), pressure_i, u)

\* the surface-tension vector added after the loop
TensionForce(cohesionForce, u) ==
  LET radiusScale == Div(Div(u.uCohesionRadius * u.uCohesionRadius, 1000) * 1000, 4000)
      tensionScale == Div(Div(u.uSurfaceTension * 300, 1000) * radiusScale, 1000)
      tensionForce == Vec3(LAMBDA a : Div(cohesionForce[a] * tensionScale, 1000))
      tensionMag == Sqrt(Dot(tensionForce, tensionForce))
      maxTension == Div(500 * radiusScale, 1000)
  IN IF tensionMag > maxTension
       THEN Vec3(LAMBDA a : Div(tensionForce[a] * maxTension, tensionMag))
       ELSE tensionForce

\* the shader of createForceShader(64) for the texel t; u holds its uniforms
forceShader(tPosition, tDensity, t, u) ==
  LET densityError == Max(0, tDensity[t][1] - u.uRestDensity)
      pressure_i == Div(densityError * u.uStiffness, 10000)
      sum == ForceLoop(tPosition, t, 0, pressure_i, u)
  IN IF tPosition[t][4] < 1 THEN ZeroTexel
     ELSE Texel(VAdd(sum.force, TensionForce(sum.cohesion, u)), 1)

\* applyForcesShader for the texel t
applyForcesShader(tPosition, tForce, t) ==
  IF tPosition[t][4] < 1 THEN tPosition[t]
  ELSE Texel(VAdd(Xyz(tPosition[t]), Xyz(tForce[t])), tPosition[t][4])

\* clamp(x, minVal, maxVal) of GLSL: min(max(x, minVal), maxVal)
clamp(x, minVal, maxVal) == Min(Max(x, minVal), maxVal)

\* boundaryShader for the texel t
boundaryShader(tPosition, t, uBoundary, uBoundaryOffset, uWallRepelDist) ==
  LET pos == tPosition[t]
      minBound == -uBoundary + uBoundaryOffset
      maxBound == uBoundary - uBoundaryOffset
      Delta(p) == (IF p - minBound < uWallRepelDist
                     THEN Div(uWallRepelDist - (p - minBound), 10) ELSE 0)
                  - (IF maxBound - p < uWallRepelDist
                       THEN Div(uWallRepelDist - (maxBound - p), 10) ELSE 0)
  IN IF pos[4] < 1 THEN pos
     ELSE <<clamp(pos[1] + Delta(pos[1]), minBound, maxBound),
            clamp(pos[2] + Delta(pos[2]), minBound, maxBound),
            clamp(pos[3] + Delta(pos[3]), minBound, maxBound),
            pos[4]>>

velocityUpdateShader_NoReflect(tPosition, tOldPosition, tVelocity, t, uDt, uViscosity, uBoundary, uBoundaryOffset) ==
  LET pos == tPosition[t]
      oldPos == tOldPosition[t]
      vL == 1000 - Div(uViscosity * uDt, 1000)
      NewVel(a) == Div(Div((pos[a] - oldPos[a]) * 1000, uDt) * vL, 1000)
  IN IF pos[4] < 1 THEN tVelocity[t]
     ELSE <<NewVel(1), NewVel(2), NewVel(3), tVelocity[t][4]>>

\* velocityUpdateShader for the texel t
velocityUpdateShader(tPosition, tOldPosition, tVelocity, t, uDt, uViscosity, uBoundary, uBoundaryOffset) ==
  LET pos == tPosition[t]
      oldPos == tOldPosition[t]
      vel == tVelocity[t]
      vL == 1000 - Div(uViscosity * uDt, 1000)
      minBound == -uBoundary + uBoundaryOffset
      maxBound == uBoundary - uBoundaryOffset
      NewVel(a) == Div(Div((pos[a] - oldPos[a]) * 1000, uDt) * vL, 1000)
      Reflect(a) == IF pos[a] <= minBound \/ pos[a] >= maxBound
                      THEN Div(NewVel(a) * (-2), 10) ELSE NewVel(a)
  IN IF pos[4] < 1 THEN vel
     ELSE <<Reflect(1), Reflect(2), Reflect(3), vel[4]>>

\* the locals GPUFluidEngine.step derives from its arguments
GpuStepLocals(dt, config, gravityVec) ==
  LET smoothness == config.visualRatio
      stiffnessNorm == Div(config.stiffness * 1000, 2000)
  IN [h |-> 1700,
      minDist |-> Div(config.particleRadius * 2 * (1400 - smoothness), 1000),
      boundary |-> Div(config.boundarySize, 2),
      boundaryOffset |-> Div(config.particleRadius * (1400 - smoothness), 1000),
      collisionStrength |-> 300 + Div(stiffnessNorm * 15, 100),
      wallRepelDist |-> Div(config.particleRadius * 12, 10),
      dt |-> dt,
      gravityVec |-> gravityVec,
      restDensity |-> config.restDensity,
      stiffness |-> config.stiffness,
      surfaceTension |-> config.surfaceTension,
      viscosity |-> config.viscosity]

\* the uniforms the force shader reads in step 5; uCohesionRadius is declared
\* by the shader and assigned by no line of the engine, so it reads as 0
ForceUniforms(G, c) ==
  [uKernelRadius |-> c.h, uStiffness |-> c.stiffness, uRestDensity |-> c.restDensity,
   uMinDist |-> c.minDist, uCollisionStrength |-> c.collisionStrength,
   uSurfaceTension |-> c.surfaceTension, uCohesionRadius |-> 0,
   uParticleCount |-> G.particleCount]

\* steps 4 to 6: one constraint iteration
GpuIteration(G, c) ==
  LET texels == DOMAIN read(G.positionTarget)
      density == [t \in texels |->
                    densityShader(read(G.positionTarget), t, c.h, c.restDensity, G.particleCount)]
      force == [t \in texels |->
                    forceShader(read(G.positionTarget), density, t, ForceUniforms(G, c))]
      applied == [t \in texels |-> applyForcesShader(read(G.positionTarget), force, t)]
  IN [G EXCEPT !.densityTarget = density,
               !.forceTarget = force,
               !.positionTarget = swap(render(G.positionTarget, applied))]

RECURSIVE GpuIterLoop(_, _, _)
GpuIterLoop(G, iter, c) ==
  IF iter < constraintIterations THEN GpuIterLoop(GpuIteration(G, c), iter + 1, c) ELSE G

\* steps 1 to 3: copy to old positions, integrate velocities, integrate positions
GpuPredict(G, c) ==
  LET texels == DOMAIN read(G.positionTarget)
      old1 == swap(render(G.oldPositionTarget, copyPositionShader(read(G.positionTarget))))
      vel1 == swap(render(G.velocityTarget,
                [t \in texels |-> velocityIntegrateShader(read(G.velocityTarget), t,
                                                           c.gravityVec, c.dt)]))
      pos1 == swap(render(G.positionTarget,
                [t \in texels |-> integrateShader(read(G.positionTarget), read(vel1), t,
                                                   c.gravityVec, c.dt)]))
  IN [G EXCEPT !.oldPositionTarget = old1, !.velocityTarget = vel1, !.positionTarget = pos1]

\* steps 7 and 8: boundary constraints, velocities from the position change
GpuFinish(G, c) ==
  LET texels == DOMAIN read(G.positionTarget)
      pos1 == swap(render(G.positionTarget,
                [t \in texels |-> boundaryShader(read(G.positionTarget), t, c.boundary,
                                                  c.boundaryOffset, c.wallRepelDist)]))
      vel1 == swap(render(G.velocityTarget,
                [t \in texels |-> velocityUpdateShader(read(pos1), read(G.oldPositionTarget),
                                     read(G.velocityTarget), t, c.dt, c.viscosity,
                                     c.boundary, c.boundaryOffset)]))
  IN [G EXCEPT !.positionTarget = pos1, !.velocityTarget = vel1]

GPUFluidEngine_step_NoGuard(G, dt, config, gravityVec) ==
  LET c == GpuStepLocals(dt, config, gravityVec)
  IN GpuFinish(GpuIterLoop(GpuPredict(G, c), 0, c), c)

\* a pass as the engine issues it: the render target it writes, the textures
\* bound to its uniforms, and the pair swapped once it has been rendered
\* ("none" for the single density and force targets)
Pass(target, reads, swapped) == [target |-> target, reads |-> reads, swapped |-> swapped]

\* the passes of one constraint iteration, of step, and of addParticles
IterationPasses ==
  <<Pass("density", {"position", "velocity"}, "none"),
    Pass("force", {"position", "velocity", "density"}, "none"),
    Pass("position", {"position", "force"}, "position")>>

StepPasses ==
  <<Pass("oldPosition", {"position"}, "oldPosition"),
    Pass("velocity", {"velocity"}, "velocity"),
    Pass("position", {"position", "velocity"}, "position")>>
  \o IterationPasses \o IterationPasses \o IterationPasses
  \o <<Pass("position", {"position", "velocity"}, "position"),
       Pass("velocity", {"position", "oldPosition", "velocity"}, "velocity")>>

AddPasses ==
  <<Pass("position", {"position"}, "position"),
    Pass("oldPosition", {"position"}, "oldPosition"),
    Pass("velocity", {"velocity"}, "velocity")>>

\* GPUFluidEngine.step(dt, config, gravityVec)
GPUFluidEngine_step(G, dt, config, gravityVec) ==
  LET c == GpuStepLocals(dt, config, gravityVec)
  IN IF G.particleCount = 0 THEN G
     ELSE GpuFinish(GpuIterLoop(GpuPredict(G, c), 0, c), c)

----------------------------------------------------------------------------
(* The calls made on an engine                                             *)

\* random draws of one addParticles call: the triple of the k-th new particle
RandUp == [k \in 1..(Capacity + 2) |-> IF k = 1 THEN RandLo ELSE RandHi]
RandDown == [k \in 1..(Capacity + 2) |-> IF k = 1 THEN RandHi ELSE RandLo]
RandAny == [k \in 1..(Capacity + 2) |-> RandMix]

\* arguments of addParticles: a negative and a zero count, single particles,
\* a pair, a request larger than the store
AddInputs ==
  {[count |-> -1, origin |-> <<0, 3000, 0>>, rnd |-> RandAny],
   [count |-> 0, origin |-> <<0, 3000, 0>>, rnd |-> RandAny],
   [count |-> 1, origin |-> <<0, 3000, 0>>, rnd |-> RandUp],
   [count |-> 1, origin |-> <<0, 3000, 0>>, rnd |-> RandDown],
   [count |-> 2, origin |-> <<0, 3000, 0>>, rnd |-> RandDown],
   [count |-> Capacity + 1, origin |-> <<0, -4800, 0>>, rnd |-> RandAny]}

\* a config with a rest density two close particles exceed, and a viscosity
\* that damps visibly
DenseConfig ==
  [DefaultConfig EXCEPT !.restDensity = 300, !.viscosity = 2000, !.visualRatio = 1000]

\* a config with a small container and a smoothness above 1.4
SmallBoxConfig ==
  [DefaultConfig EXCEPT !.boundarySize = 2000, !.visualRatio = 1500, !.particleRadius = 600]

\* arguments of step
StepInputs ==
  {[dt |-> 100, config |-> DefaultConfig, gravityVec |-> <<0, -15000, 0>>],
   [dt |-> 100, config |-> DefaultConfig, gravityVec |-> <<0, 0, 0>>],
   [dt |-> 100, config |-> DenseConfig, gravityVec |-> <<0, 0, 0>>],
   [dt |-> 16, config |-> SmallBoxConfig, gravityVec |-> <<9000, -12000, 0>>]}

\* the record of the last call: its name and arguments, the particle count
\* before it, and whether some earlier or this call was a step on a non-empty store
NoCall ==
  [op |-> "new", count |-> 0, origin |-> Zero3, start |-> 0, stepped |-> FALSE,
   step |-> [dt |-> 0, config |-> DefaultConfig, gravityVec |-> Zero3]]

\* one invocation of the density and force shaders, followed on its own: the
\* texel it runs for, the one other particle near it, the uniforms, and the
\* texels it has output; stage "none" when no invocation is followed
NoFragment ==
  [stage |-> "none", i |-> 0, j |-> 0, r |-> 0, count |-> 0, config |-> DefaultConfig,
   density |-> ZeroTexel, force |-> ZeroTexel]

Init ==
  /\ kind \in {"cpu", "gpu"}
  /\ cpu = FluidEngine_constructor(InitConfig)
  /\ gpu = GPUFluidEngine_constructor(InitConfig)
  /\ last = NoCall
  /\ ops = 0
  /\ frag = NoFragment

CpuAddParticles(in) ==
  /\ kind = "cpu" /\ ops < MaxOps
  /\ cpu' = FluidEngine_addParticles(cpu, in.count, in.origin, in.rnd)
  /\ last' = [NoCall EXCEPT !.op = "addParticles", !.count = in.count, !.origin = in.origin,
                            !.start = cpu.particleCount, !.stepped = last.stepped]
  /\ ops' = ops + 1
  /\ UNCHANGED <<kind, gpu, frag>>

CpuStep(in) ==
  /\ kind = "cpu" /\ ops < MaxOps
  /\ cpu' = FluidEngine_step(cpu, in.dt, in.config, in.gravityVec)
  /\ last' = [NoCall EXCEPT !.op = "step", !.start = cpu.particleCount, !.step = in,
                            !.stepped = last.stepped \/ cpu.particleCount > 0]
  /\ ops' = ops + 1
  /\ UNCHANGED <<kind, gpu, frag>>

CpuReset ==
  /\ kind = "cpu" /\ ops < MaxOps
  /\ cpu' = FluidEngine_reset(cpu)
  /\ last' = [NoCall EXCEPT !.op = "reset", !.start = cpu.particleCount,
                            !.stepped = last.stepped]
  /\ ops' = ops + 1
  /\ UNCHANGED <<kind, gpu, frag>>

GpuAddParticles(in) ==
  /\ kind = "gpu" /\ ops < MaxOps
  /\ gpu' = GPUFluidEngine_addParticles(gpu, in.count, in.origin, in.rnd)
  /\ last' = [NoCall EXCEPT !.op = "addParticles", !.count = in.count, !.origin = in.origin,
                            !.start = gpu.particleCount, !.stepped = last.stepped]
  /\ ops' = ops + 1
  /\ UNCHANGED <<kind, cpu, frag>>

GpuStep(in) ==
  /\ kind = "gpu" /\ ops < MaxOps
  /\ gpu' = GPUFluidEngine_step(gpu, in.dt, in.config, in.gravityVec)
  /\ last' = [NoCall EXCEPT !.op = "step", !.start = gpu.particleCount, !.step = in,
                            !.stepped = last.stepped \/ gpu.particleCount > 0]
  /\ ops' = ops + 1
  /\ UNCHANGED <<kind, cpu, frag>>

GpuReset ==
  /\ kind = "gpu" /\ ops < MaxOps
  /\ gpu' = GPUFluidEngine_reset(gpu)
  /\ last' = [NoCall EXCEPT !.op = "reset", !.start = gpu.particleCount,
                            !.stepped = last.stepped]
  /\ ops' = ops + 1
  /\ UNCHANGED <<kind, cpu, frag>>

Next ==
  \/ \E in \in AddInputs : CpuAddParticles(in)
  \/ \E in \in StepInputs : CpuStep(in)
  \/ CpuReset
  \/ \E in \in AddInputs : GpuAddParticles(in)
  \/ \E in \in StepInputs : GpuStep(in)
  \/ GpuReset

Spec == Init /\ [][Next]_vars

----------------------------------------------------------------------------
(* A store of three particles in a row                                     *)

\* the config of an engine with room for one particle more than Capacity
RowConfig == [DefaultConfig EXCEPT !.maxParticles = Capacity + 1]

\* origins on the x axis: with the jitter of RandAny the particles land at
\* x = 1.2, 1.69 and 3.42, the last two on either side of the cells
\* [1.7, 3.4) of a grid of cell size 1.7
RowOrigins == {<<1299, 0, 0>>, <<1789, 0, 0>>, <<3519, 0, 0>>}

\* new FluidEngine(RowConfig) and three calls addParticles(1, origin)
CpuRow(o1, o2, o3) ==
  FluidEngine_addParticles(
    FluidEngine_addParticles(
      FluidEngine_addParticles(FluidEngine_constructor(RowConfig), 1, o1, RandAny),
      1, o2, RandAny),
    1, o3, RandAny)

\* new GPUFluidEngine(RowConfig, renderer) and the same three calls
GpuRow(o1, o2, o3) ==
  GPUFluidEngine_addParticles(
    GPUFluidEngine_addParticles(
      GPUFluidEngine_addParticles(GPUFluidEngine_constructor(RowConfig), 1, o1, RandAny),
      1, o2, RandAny),
    1, o3, RandAny)

\* the engine after the three calls; the calls that follow are those of Next
InitRow ==
  /\ kind \in {"cpu", "gpu"}
  /\ \E o1, o2, o3 \in RowOrigins :
       /\ cpu = CpuRow(o1, o2, o3)
       /\ gpu = GpuRow(o1, o2, o3)
       /\ last = [NoCall EXCEPT !.op = "addParticles", !.count = 1, !.origin = o3,
                                !.start = 2]
  /\ ops = 3
  /\ frag = NoFragment

SpecRow == InitRow /\ [][Next]_vars

----------------------------------------------------------------------------
(* The density and force shaders on a store larger than their loop bound   *)

\* the invocations followed: particle i and particle j at distance r on the
\* x axis, count particles in a store of LoopLimit + 2
FragmentInputs ==
  LET All == {[NoFragment EXCEPT !.stage = "new", !.i = i, !.j = j, !.r = r,
                                 !.count = count,
                                 !.config = [config EXCEPT !.maxParticles = LoopLimit + 2]] :
                i \in {0, LoopLimit - 1, LoopLimit + 1},
                j \in {1, LoopLimit - 2, LoopLimit, LoopLimit + 1},
                r \in {300, 1650, 2000},
                count \in {LoopLimit, LoopLimit + 2},
                config \in {DefaultConfig, DenseConfig}}
  IN {f \in All : f.i # f.j}

\* the position texture the invocation reads: particle i, particle j at
\* distance r from it, every other active particle at the far side of the
\* container, the texels from count on inactive
FragmentTexture(f) ==
  LET size == CeilSqrt(f.config.maxParticles)
  IN [t \in 0..(size * size - 1) |->
        IF t >= f.count THEN InactiveTexel
        ELSE IF t = f.i THEN <<-4000, 0, 0, 1>>
        ELSE IF t = f.j THEN <<-4000 + f.r, 0, 0, 1>>
        ELSE <<4000, 0, 0, 1>>]

\* the uniforms step assigns for the invocation
FragmentLocals(f) == GpuStepLocals(100, f.config, Zero3)
FragmentUniforms(f) == ForceUniforms([particleCount |-> f.count], FragmentLocals(f))

InitShader ==
  /\ kind = "gpu"
  /\ cpu = FluidEngine_constructor(InitConfig)
  /\ gpu = GPUFluidEngine_constructor(InitConfig)
  /\ last = NoCall
  /\ ops = 0
  /\ frag \in FragmentInputs

\* step 4 for the texel frag.i
DensityFragment ==
  /\ frag.stage = "new"
  /\ frag' = [frag EXCEPT !.stage = "density",
                          !.density = densityShader(FragmentTexture(frag), frag.i,
                                        FragmentLocals(frag).h,
                                        FragmentLocals(frag).restDensity, frag.count)]
  /\ UNCHANGED <<kind, cpu, gpu, last, ops>>

\* step 5 for the texel frag.i
ForceFragment ==
  /\ frag.stage = "density"
  /\ frag' = [frag EXCEPT !.stage = "force",
                          !.force = forceShader(FragmentTexture(frag),
                                      [t \in {frag.i} |-> frag.density], frag.i,
                                      FragmentUniforms(frag))]
  /\ UNCHANGED <<kind, cpu, gpu, last, ops>>

NextShader == DensityFragment \/ ForceFragment

SpecShader == InitShader /\ [][NextShader]_vars

----------------------------------------------------------------------------
(* Views of the engine under test                                          *)

\* the slots of the store: indices below maxParticles in the sequential
\* engine, every texel in the parallel one
CpuSlots == DOMAIN cpu.positions
GpuSlots == DOMAIN read(gpu.positionTarget)

\* position, previous position and velocity of slot t of the parallel engine
GpuPos(G, t) == read(G.positionTarget)[t]
GpuOld(G, t) == read(G.oldPositionTarget)[t]
GpuVel(G, t) == read(G.velocityTarget)[t]

Count == IF kind = "cpu" THEN cpu.particleCount ELSE gpu.particleCount

----------------------------------------------------------------------------
(* Claims                                                                  *)

\* C1: after any sequence of addParticles, step and reset calls, with any
\* integer counts, particleCount is at least 0 and at most maxParticles, in
\* both engines.
C1_CountWithinCapacity ==
  /\ cpu.particleCount >= 0 /\ cpu.particleCount <= cpu.maxParticles
  /\ gpu.particleCount >= 0 /\ gpu.particleCount <= gpu.maxParticles

\* a request larger than the free slots was made on a partly filled store
C1_Witness ==
  /\ kind = "gpu" /\ last.op = "addParticles"
  /\ last.start > 0 /\ last.count > gpu.maxParticles - last.start
  /\ gpu.particleCount = gpu.maxParticles

\* C2: no addParticles call (also with a zero or negative count, or at
\* capacity) and no step call lowers particleCount; only reset does.
C2_CountDropsOnlyOnReset ==
  [][(cpu'.particleCount < cpu.particleCount \/ gpu'.particleCount < gpu.particleCount)
       => last'.op = "reset"]_vars

\* a negative count was requested from a store that holds particles
C2_Witness ==
  /\ kind = "cpu" /\ last.op = "addParticles" /\ last.count < 0
  /\ last.start > 0 /\ cpu.particleCount = last.start

\* C3: for a count >= 0, addParticles raises particleCount by exactly
\* min(count, maxParticles - particleCount): a request beyond the free slots is
\* truncated and adds nothing to a full store.
C3_AddsExactlyTheFreeShare ==
  (last.op = "addParticles" /\ last.count >= 0) =>
    /\ kind = "cpu" =>
         cpu.particleCount = last.start + Min(last.count, cpu.maxParticles - last.start)
    /\ kind = "gpu" =>
         gpu.particleCount = last.start + Min(last.count, gpu.maxParticles - last.start)

\* two particles were requested from an empty store and both were placed
C3_Witness ==
  /\ kind = "cpu" /\ last.op = "addParticles"
  /\ last.count = 2 /\ last.start = 0 /\ cpu.particleCount = 2

\* the bounds step derives from its config, per engine
CpuBounds(in) ==
  LET c == StepLocals(in.dt, in.config, in.gravityVec)
  IN [min |-> -c.boundary + c.boundaryOffset, max |-> c.boundary - c.boundaryOffset]

GpuBounds(in) ==
  LET c == GpuStepLocals(in.dt, in.config, in.gravityVec)
  IN [min |-> -c.boundary + c.boundaryOffset, max |-> c.boundary - c.boundaryOffset]

\* C4: after a step on a non-empty store every active particle lies, on each
\* axis, in [-boundarySize/2 + offset, boundarySize/2 - offset] for the offset
\* the step derived from its config, when that interval is not empty.
C4_ActiveInsideBounds ==
  (last.op = "step" /\ last.start > 0) =>
    /\ (kind = "cpu" /\ CpuBounds(last.step).min <= CpuBounds(last.step).max) =>
         \A i \in CpuSlots : i < cpu.particleCount =>
           \A a \in Axes : /\ cpu.positions[i][a] >= CpuBounds(last.step).min
                           /\ cpu.positions[i][a] <= CpuBounds(last.step).max
    /\ (kind = "gpu" /\ GpuBounds(last.step).min <= GpuBounds(last.step).max) =>
         \A t \in GpuSlots : t < gpu.particleCount =>
           \A a \in Axes : /\ GpuPos(gpu, t)[a] >= GpuBounds(last.step).min
                           /\ GpuPos(gpu, t)[a] <= GpuBounds(last.step).max

\* a step has put a particle that started outside the container on its bound
C4_Witness ==
  /\ kind = "cpu" /\ last.op = "step" /\ last.start > 0
  /\ \E i \in CpuSlots : \E a \in Axes :
       /\ i < cpu.particleCount
       /\ cpu.positions[i][a] = CpuBounds(last.step).max
       /\ cpu.oldPositions[i][a] > CpuBounds(last.step).max

\* C5: step on an empty store changes nothing: no position, previous position,
\* velocity or density slot, not the count, not the grid, and no read/write
\* role of a ping-pong pair.
C5_StepOnEmptyIsNoop ==
  [][(last'.op = "step" /\ Count = 0) => (cpu' = cpu /\ gpu' = gpu)]_vars

\* a step was made on a store emptied by reset after an earlier, effective step
C5_Witness ==
  /\ kind = "gpu" /\ last.op = "step" /\ last.start = 0 /\ last.stepped

\* C6: reset leaves particleCount at 0, and a second reset changes nothing.
C6_ResetIdempotent ==
  last.op = "reset" =>
    /\ kind = "cpu" => (cpu.particleCount = 0 /\ FluidEngine_reset(cpu) = cpu)
    /\ kind = "gpu" => (gpu.particleCount = 0 /\ GPUFluidEngine_reset(gpu) = gpu)

\* a store that was filled and stepped has been reset
C6_Witness ==
  /\ kind = "gpu" /\ last.op = "reset" /\ last.start > 0 /\ last.stepped
  /\ gpu.positionTarget.current # gpu.velocityTarget.current

\* C7: every slot with an index >= particleCount is inactive: the sentinel on
\* all axes in the sequential engine, a w flag of 0 in the parallel one.
C7_SlotsBeyondCountInactive ==
  /\ \A i \in CpuSlots : i >= cpu.particleCount =>
       cpu.positions[i] = <<Sentinel, Sentinel, Sentinel>>
  /\ \A t \in GpuSlots : t >= gpu.particleCount => GpuPos(gpu, t)[4] = 0

\* a full store that was stepped has been reset
C7_Witness ==
  /\ kind = "cpu" /\ last.op = "reset" /\ last.start = cpu.maxParticles /\ last.stepped

IsolatedPair(E, in) ==
  LET c == StepLocals(in.dt, in.config, in.gravityVec)
      d2 == Dist2(E.positions, 0, 1)
  IN /\ E.particleCount = 2
     /\ in.gravityVec = Zero3
     /\ E.velocities[0] = Zero3 /\ E.velocities[1] = Zero3
     /\ d2 >= 1 /\ d2 < c.minDist * c.minDist
     /\ \A i \in {0, 1} : \A a \in Axes :
          /\ E.positions[i][a] - (-c.boundary + c.boundaryOffset) >= c.wallRepelDist + c.minDist
          /\ (c.boundary - c.boundaryOffset) - E.positions[i][a] >= c.wallRepelDist + c.minDist

C11_DensityAtLeastSelfTerm ==
  (last.op = "step" /\ last.start > 0) =>
    /\ kind = "cpu" =>
         \A i \in CpuSlots : i < cpu.particleCount =>
           /\ cpu.densities[i] >= Poly6Term(h * h)
           /\ cpu.densities[i] >= 0
    /\ kind = "gpu" =>
         \A t \in GpuSlots : t < gpu.particleCount =>
           /\ gpu.densityTarget[t][1] >= poly6_glsl(0, h * h)
           /\ gpu.densityTarget[t][1] >= 0

\* a step has computed the densities of two particles inside each other's
\* kernel radius and of a particle with no neighbour in range
C11_Witness ==
  /\ kind = "cpu" /\ last.op = "step" /\ cpu.particleCount = 2
  /\ cpu.densities[0] > Poly6Term(h * h)
  /\ Poly6Term(h * h) > 0

\* |pos[a] - origin[a]| <= (gridDim - 1) * spacing / 2 + 0.15 * spacing
WithinInjectionCube(pos, origin, count, baseRadius) ==
  LET spacing == getParticleSpacing(baseRadius)
      gridDim == CeilCbrt(count)
      reach == Div((gridDim - 1) * spacing, 2) + Div(spacing * 15, 100)
  IN \A a \in Axes : Abs(pos[a] - origin[a]) <= reach

\* C12: addParticles(count, origin) with count >= 1 and enough free slots
\* puts every added particle, on each axis, within
\* (gridDim - 1) * spacing / 2 + 0.15 * spacing of the origin, in both engines
\* and for every outcome of the jitter.
C12_AddedInsideCube ==
  (last.op = "addParticles" /\ last.count >= 1) =>
    /\ (kind = "cpu" /\ last.count <= cpu.maxParticles - last.start) =>
         \A i \in CpuSlots : (i >= last.start /\ i < cpu.particleCount) =>
           WithinInjectionCube(cpu.positions[i], last.origin, last.count, cpu.baseRadius)
    /\ (kind = "gpu" /\ last.count <= gpu.maxParticles - last.start) =>
         \A t \in GpuSlots : (t >= last.start /\ t < gpu.particleCount) =>
           WithinInjectionCube(Xyz(GpuPos(gpu, t)), last.origin, last.count, gpu.baseRadius)

\* two particles were added on a 2x2x2 lattice and one of them sits at the
\* largest distance from the origin the jitter allows
C12_Witness ==
  /\ kind = "gpu" /\ last.op = "addParticles" /\ last.count = 2 /\ last.start = 0
  /\ \E t \in GpuSlots : \E a \in Axes :
       /\ t < gpu.particleCount
       /\ Abs(GpuPos(gpu, t)[a] - last.origin[a])
            = Div(getParticleSpacing(gpu.baseRadius), 2)
              + Div(getParticleSpacing(gpu.baseRadius) * 15, 100)

\* the stages of a sequential step, each applied to every active particle
CpuPredictStage(E, c) ==
  LET S == PredictLoop(E, 0, c)
  IN [S EXCEPT !.grid = updateGrid(S.positions, S.particleCount, c.cellSize)]

CpuIterationStage(S, c) == ConstrainLoop(S, 0, c)

CpuBoundaryStage(S, c) ==
  LET Active(i) == i < S.particleCount
      B(i, a) == BoundaryAxis(S.positions[i][a], S.velocities[i][a], c)
  IN [S EXCEPT !.positions = [i \in DOMAIN S.positions |->
                                IF Active(i) THEN <<B(i, 1)[1], B(i, 2)[1], B(i, 3)[1]>>
                                ELSE S.positions[i]],
               !.velocities = [i \in DOMAIN S.velocities |->
                                 IF Active(i) THEN <<B(i, 1)[2], B(i, 2)[2], B(i, 3)[2]>>
                                 ELSE S.velocities[i]]]

CpuVelocityStage(S, c) ==
  [S EXCEPT !.velocities = [i \in DOMAIN S.velocities |->
                              IF i < S.particleCount
                                THEN VelocityUpdate(S.positions[i], S.oldPositions[i], c)
                                ELSE S.velocities[i]]]

\* predict, three constraint iterations, boundary, velocity reconstruction
CpuStagesInOrder(E, in) ==
  LET c == StepLocals(in.dt, in.config, in.gravityVec)
      P == CpuPredictStage(E, c)
      I3 == CpuIterationStage(CpuIterationStage(CpuIterationStage(P, c), c), c)
  IN CpuVelocityStage(CpuBoundaryStage(I3, c), c)

GpuStagesInOrder(G, in) ==
  LET c == GpuStepLocals(in.dt, in.config, in.gravityVec)
      P == GpuPredict(G, c)
      I3 == GpuIteration(GpuIteration(GpuIteration(P, c), c), c)
  IN GpuFinish(I3, c)

CpuBeforeLastIteration(E, in) ==
  LET c == StepLocals(in.dt, in.config, in.gravityVec)
  IN CpuIterationStage(CpuIterationStage(CpuPredictStage(E, c), c), c)

\* C14: in the sequential engine all densities of a constraint iteration are
\* computed from the positions the iteration started with: no position is
\* modified before every active particle's density has been computed.
C14_DensitiesFromOneSnapshot ==
  [][(kind = "cpu" /\ last'.op = "step" /\ cpu.particleCount > 0) =>
       LET c == StepLocals(last'.step.dt, last'.step.config, last'.step.gravityVec)
           S == CpuBeforeLastIteration(cpu, last'.step)
       IN \A i \in CpuSlots : i < cpu.particleCount =>
            cpu'.densities[i]
              = Density(S.positions, i, Neighbors(S.positions, S.grid, i, c), c)]_vars

\* the read index of each ping-pong pair
Currents(G) ==
  [position |-> G.positionTarget.current,
   velocity |-> G.velocityTarget.current,
   oldPosition |-> G.oldPositionTarget.current]

\* the buffer a pass reads or writes under the name n
ReadBuffer(n, cur) ==
  IF n \in DOMAIN cur THEN <<n, readTarget([current |-> cur[n]])>> ELSE <<n, "texture">>
WriteBuffer(n, cur) ==
  IF n \in DOMAIN cur THEN <<n, writeTarget([current |-> cur[n]])>> ELSE <<n, "texture">>

\* passes n.. issued from the read indices cur: whether no pass writes a
\* buffer it reads and each swap is of the pair just written, and the read
\* indices at the end
RECURSIVE RunPasses(_, _, _)
RunPasses(passes, n, cur) ==
  IF n > Len(passes) THEN [ok |-> TRUE, cur |-> cur]
  ELSE LET p == passes[n]
           rest == RunPasses(passes, n + 1,
                     IF p.swapped \in DOMAIN cur
                       THEN [cur EXCEPT ![p.swapped] = 1 - cur[p.swapped]] ELSE cur)
       IN [ok |-> /\ WriteBuffer(p.target, cur) \notin {ReadBuffer(r, cur) : r \in p.reads}
                  /\ (p.target \in DOMAIN cur => p.swapped = p.target)
                  /\ (p.target \notin DOMAIN cur => p.swapped = "none")
                  /\ rest.ok,
           cur |-> rest.cur]

\* C15: in the parallel engine no pass of addParticles or step writes a
\* render target it reads, a pair swaps roles only after the pass that wrote
\* it, and read and write of a pair are never the same buffer.
C15_NoPassReadsItsTarget ==
  [][(kind = "gpu" /\ last'.op \in {"addParticles", "step"} /\ gpu' # gpu) =>
       LET run == RunPasses(IF last'.op = "step" THEN StepPasses ELSE AddPasses,
                            1, Currents(gpu))
       IN /\ run.ok
          /\ run.cur = Currents(gpu')
          /\ \A T \in {gpu.positionTarget, gpu.velocityTarget, gpu.oldPositionTarget} :
               readTarget(T) # writeTarget(T)]_vars

\* a step was issued, with pairs in either role before and after it
C15_Witness ==
  /\ kind = "gpu" /\ last.op = "step" /\ last.start > 0
  /\ gpu.positionTarget.current # gpu.velocityTarget.current
  /\ gpu.velocityTarget.current = 0

\* C16: the predict stage of a parallel step leaves every active particle
\* with velocity v + g*dt and position p + (v + g*dt)*dt: gravity is applied
\* to the velocity exactly once.
C16_GpuPredictOnce ==
  [][(kind = "gpu" /\ last'.op = "step" /\ gpu.particleCount > 0) =>
       LET c == GpuStepLocals(last'.step.dt, last'.step.config, last'.step.gravityVec)
           P == GpuPredict(gpu, c)
       IN \A t \in GpuSlots : t < gpu.particleCount =>
            \A a \in Axes :
              LET v == GpuVel(gpu, t)[a] + Div(c.gravityVec[a] * c.dt, 1000)
              IN /\ GpuVel(P, t)[a] = v
                 /\ GpuPos(P, t)[a] = GpuPos(gpu, t)[a] + Div(v * c.dt, 1000)]_vars

\* C17: at the end of every sequential step each active particle's velocity
\* is (position - previousPosition) / dt times (1 - viscosity * dt), from its
\* final position, whether or not the boundary stage moved or clamped it.
C17_CpuVelocityReconstructed ==
  (kind = "cpu" /\ last.op = "step" /\ last.start > 0) =>
    LET c == StepLocals(last.step.dt, last.step.config, last.step.gravityVec)
    IN \A i \in CpuSlots : i < cpu.particleCount =>
         cpu.velocities[i] = VelocityUpdate(cpu.positions[i], cpu.oldPositions[i], c)

\* a step has clamped a moving particle onto a bound and left another axis of
\* it free
C17_Witness ==
  /\ kind = "cpu" /\ last.op = "step" /\ last.start > 0
  /\ \E i \in CpuSlots : \E a, b \in Axes :
       /\ i < cpu.particleCount
       /\ cpu.positions[i][a] \in {CpuBounds(last.step).min, CpuBounds(last.step).max}
       /\ cpu.velocities[i][a] # 0
       /\ cpu.positions[i][b] \notin {CpuBounds(last.step).min, CpuBounds(last.step).max}
       /\ cpu.velocities[i][b] # 0

\* the sequential engine when its boundary stage starts
CpuBeforeBoundary(E, in) ==
  LET c == StepLocals(in.dt, in.config, in.gravityVec)
  IN CpuIterationStage(CpuBeforeLastIteration(E, in), c)

\* whether the hard boundary of the sequential engine triggers for the
\* coordinate p: it is what changes the velocity in the boundary stage
HardClampTriggers(p, c) == BoundaryAxis(p, 1000, c)[2] # 1000

\* C18: when the boundary stage of the sequential engine hard-clamps a
\* particle on an axis, the velocity component times -0.2 that the stage
\* assigns is the one the particle has when step returns.
C18_CpuReflectionKept ==
  [][(kind = "cpu" /\ last'.op = "step" /\ cpu.particleCount > 0) =>
       LET c == StepLocals(last'.step.dt, last'.step.config, last'.step.gravityVec)
           S == CpuBeforeBoundary(cpu, last'.step)
       IN \A i \in CpuSlots : i < cpu.particleCount =>
            \A a \in Axes : HardClampTriggers(S.positions[i][a], c) =>
              cpu'.velocities[i][a]
                = BoundaryAxis(S.positions[i][a], S.velocities[i][a], c)[2]]_vars

\* (position - previousPosition) / dt * (1 - viscosity * dt) for the slot t of
\* the parallel engine, on axis a
GpuReconstructed(G, t, a, c) ==
  Div(Div((GpuPos(G, t)[a] - GpuOld(G, t)[a]) * 1000, c.dt)
        * (1000 - Div(c.viscosity * c.dt, 1000)), 1000)

\* C19 as stated: no stage of a parallel step inverts or attenuates a velocity
\* because of the boundary; every active particle ends with
\* (position - previousPosition) / dt * (1 - viscosity * dt).
C19_GpuNoReflection ==
  (kind = "gpu" /\ last.op = "step" /\ last.start > 0) =>
    LET c == GpuStepLocals(last.step.dt, last.step.config, last.step.gravityVec)
    IN \A t \in GpuSlots : t < gpu.particleCount =>
         \A a \in Axes : GpuVel(gpu, t)[a] = GpuReconstructed(gpu, t, a, c)

\* C19 amended: in the parallel engine the velocity of an active particle
\* after a step is (position - previousPosition) / dt * (1 - viscosity * dt)
\* on every axis where its position is strictly inside the bounds, and that
\* value times -0.2 on every axis where its position is on a bound.
C19_GpuReflectsOnBound ==
  (kind = "gpu" /\ last.op = "step" /\ last.start > 0) =>
    LET c == GpuStepLocals(last.step.dt, last.step.config, last.step.gravityVec)
    IN \A t \in GpuSlots : t < gpu.particleCount =>
         \A a \in Axes :
           GpuVel(gpu, t)[a]
             = IF \/ GpuPos(gpu, t)[a] <= GpuBounds(last.step).min
                  \/ GpuPos(gpu, t)[a] >= GpuBounds(last.step).max
                 THEN Div(GpuReconstructed(gpu, t, a, c) * (-2), 10)
                 ELSE GpuReconstructed(gpu, t, a, c)

\* a parallel step has left a particle on a bound with a velocity pointing
\* against its displacement
C19_Witness ==
  /\ kind = "gpu" /\ last.op = "step" /\ last.start > 0
  /\ \E t \in GpuSlots : \E a \in Axes :
       /\ t < gpu.particleCount
       /\ GpuPos(gpu, t)[a] = GpuBounds(last.step).min
       /\ GpuPos(gpu, t)[a] > GpuOld(gpu, t)[a]
       /\ GpuVel(gpu, t)[a] < 0

\* the sum of the positions of the particles i..particleCount - 1
RECURSIVE PositionSum(_, _, _)
PositionSum(positions, i, particleCount) ==
  IF i >= particleCount THEN Zero3
  ELSE VAdd(positions[i], PositionSum(positions, i + 1, particleCount))

\* C20: in the sequential engine every displacement the constraint loop adds
\* to a particle is subtracted from its neighbour, so the sum of the positions
\* of all active particles after the three constraint iterations equals the
\* sum after the predict stage.
C20_ConstraintsKeepPositionSum ==
  [][(kind = "cpu" /\ last'.op = "step" /\ cpu.particleCount > 0) =>
       LET c == StepLocals(last'.step.dt, last'.step.config, last'.step.gravityVec)
       IN PositionSum(CpuBeforeBoundary(cpu, last'.step).positions, 0, cpu.particleCount)
            = PositionSum(CpuPredictStage(cpu, c).positions, 0, cpu.particleCount)]_vars

\* a step under a low rest density has moved a pair that is within range
C20_Witness ==
  /\ kind = "cpu" /\ last.op = "step" /\ last.start = 2
  /\ last.step.config = DenseConfig
  /\ cpu.densities[1] > Poly6Term(h * h)
  /\ cpu.positions[1] # cpu.oldPositions[1]
  /\ VSub(cpu.positions[1], cpu.oldPositions[1])
       = VNeg(VSub(cpu.positions[0], cpu.oldPositions[0]))

\* whether the query made for particle i returns each active particle j # i
\* with a squared distance below max(h2, minDist^2) exactly once
QueryIsExact(S, i, c) ==
  LET neighbors == Neighbors(S.positions, S.grid, i, c)
      InRange == {j \in 0..(S.particleCount - 1) :
                    j # i /\ Dist2(S.positions, i, j) < Max(c.h2, c.minDist * c.minDist)}
  IN /\ {neighbors[n] : n \in 1..Len(neighbors)} = InRange
     /\ Len(neighbors) = Cardinality(InRange)

\* the queries of the constraint iterations iter.., from particle i on, each
\* made on the positions the loop has reached
RECURSIVE QueriesAreExact(_, _, _, _)
QueriesAreExact(S, iter, i, c) ==
  IF iter >= constraintIterations THEN TRUE
  ELSE IF i >= S.particleCount THEN QueriesAreExact(S, iter + 1, 0, c)
  ELSE QueryIsExact(S, i, c) /\ QueriesAreExact(Constrain(S, i, c), iter, i + 1, c)

\* C21: in the sequential engine every neighbour query of a step, in each of
\* the three constraint iterations, returns exactly the active particles j # i
\* whose squared distance to i, on the positions current at the query, is
\* below max(h^2, minDist^2): none missed, none returned twice.
C21_QueryReturnsAllInRange ==
  [][(kind = "cpu" /\ last'.op = "step" /\ cpu.particleCount > 0) =>
       LET c == StepLocals(last'.step.dt, last'.step.config, last'.step.gravityVec)
       IN QueriesAreExact(CpuPredictStage(cpu, c), 0, 0, c)]_vars

\* what the one neighbour j of a followed invocation contributes to the
\* force sums when it is active
FragmentPair(f) ==
  IF f.j < f.count
    THEN ForceTerm(FragmentTexture(f), f.i, f.j,
                   Div(Max(0, f.density[1] - FragmentUniforms(f).uRestDensity)
                         * FragmentUniforms(f).uStiffness, 10000),
                   FragmentUniforms(f))
    ELSE [force |-> Zero3, cohesion |-> Zero3]

\* C22: in the parallel engine, for every particleCount up to maxParticles and
\* every maxParticles, the density and force passes of an active particle i
\* take every other active particle j into account: an active j # i closer
\* than h adds poly6 to density_i, and its force terms to the force on i,
\* whatever the slot index of j.
C22_EveryActiveNeighbourCounts ==
  (frag.stage \in {"density", "force"} /\ frag.i < frag.count) =>
    /\ frag.density[1]
         = poly6_glsl(0, h * h)
           + (IF frag.j < frag.count /\ frag.r * frag.r < h * h
                THEN poly6_glsl(frag.r * frag.r, h * h) ELSE 0)
    /\ frag.stage = "force" =>
         frag.force = Texel(VAdd(FragmentPair(frag).force,
                                 TensionForce(FragmentPair(frag).cohesion,
                                              FragmentUniforms(frag))), 1)

\* the turns n.. of the pair loop of particle i: whether each pair closer than
\* 0.001 when its turn comes leaves both its particles where they are
RECURSIVE PairsSkipped(_, _, _, _, _, _)
PairsSkipped(positions, i, neighbors, n, clampedPressure, c) ==
  IF n > Len(neighbors) THEN TRUE
  ELSE LET j == neighbors[n]
           moved == PairStep(positions, i, j, clampedPressure, c)
       IN /\ Sqrt(Dist2(positions, i, j)) < 1 =>
               (moved[i] = positions[i] /\ moved[j] = positions[j])
          /\ PairsSkipped(moved, i, neighbors, n + 1, clampedPressure, c)

\* the same for every pair loop of the constraint iterations iter.., from
\* particle i on
RECURSIVE CoincidentSkipped(_, _, _, _)
CoincidentSkipped(S, iter, i, c) ==
  IF iter >= constraintIterations THEN TRUE
  ELSE IF i >= S.particleCount THEN CoincidentSkipped(S, iter + 1, 0, c)
  ELSE LET neighbors == Neighbors(S.positions, S.grid, i, c)
           density == Density(S.positions, i, neighbors, c)
       IN /\ PairsSkipped(S.positions, i, neighbors, 1, ClampedPressure(density, c), c)
          /\ CoincidentSkipped(Constrain(S, i, c), iter, i + 1, c)

\* the parallel engine when its last constraint iteration starts
GpuBeforeLastIteration(G, in) ==
  LET c == GpuStepLocals(in.dt, in.config, in.gravityVec)
  IN GpuIteration(GpuIteration(GpuPredict(G, c), c), c)

\* C23: in both engines a pair of active particles closer than 0.001 when it
\* is processed is skipped by the force computation: it adds no pressure,
\* collision or cohesion displacement to either particle.  Sequential engine:
\* every such turn of a pair loop leaves both positions, and a coincident pair
\* alone in the store ends the step where predict and the boundary put it.
\* Parallel engine: the force output for a particle is the one computed with
\* its coincident partner taken out of the texture.
C23_CoincidentPairSkipped ==
  [][(last'.op = "step" /\ Count > 0) =>
       /\ kind = "cpu" =>
            LET c == StepLocals(last'.step.dt, last'.step.config, last'.step.gravityVec)
                P == CpuPredictStage(cpu, c)
            IN /\ CoincidentSkipped(P, 0, 0, c)
               /\ (cpu.particleCount = 2 /\ P.positions[0] = P.positions[1]) =>
                    cpu'.positions = CpuBoundaryStage(P, c).positions
       /\ kind = "gpu" =>
            LET c == GpuStepLocals(last'.step.dt, last'.step.config, last'.step.gravityVec)
            IN \A tex \in {read(GpuBeforeLastIteration(gpu, last'.step).positionTarget)} :
                 \A t, j \in GpuSlots :
                   (t # j /\ t < gpu.particleCount /\ j < gpu.particleCount
                      /\ Sqrt(Dist2([s \in GpuSlots |-> Xyz(tex[s])], t, j)) < 1)
                   => gpu'.forceTarget[t]
                        = forceShader([tex EXCEPT ![j] = InactiveTexel], gpu'.densityTarget, t,
                                      ForceUniforms(gpu, c))]_vars

\* a step has run on two particles that share one position, and has left them
\* sharing one
C23_Witness ==
  /\ kind = "cpu" /\ last.op = "step" /\ last.start = 2
  /\ cpu.oldPositions[0] = cpu.oldPositions[1]
  /\ cpu.positions[0] = cpu.positions[1]
  /\ cpu.positions[0] # cpu.oldPositions[0]

\* the pressure part of the displacement the sequential pair loop gives i
\* against j: the displacement with the collision distance set to 0
CpuPressureMove(positions, i, j, clampedPressure, c) ==
  PairMove(positions, i, j, clampedPressure, [c EXCEPT !.minDist = 0])

\* the pressure part of what j adds to the force on the texel t
GpuPressureForce(tPosition, t, j, pressure_i, u) ==
  ForceTerm(tPosition, t, j, pressure_i, [u EXCEPT !.uMinDist = 0]).force

\* C24: when the density of particle i exceeds the rest density, the pressure
\* contribution of a neighbour j at distance 0.001 <= d < h to the
\* displacement of i points away from j (its scalar product with
\* pos_i - pos_j is not negative), in both engines.
C24_PressurePushesApart ==
  [][(last'.op = "step" /\ Count > 0) =>
       /\ kind = "cpu" =>
            \A c \in {StepLocals(last'.step.dt, last'.step.config, last'.step.gravityVec)} :
              \A P \in {CpuPredictStage(cpu, c)} :
                \A i, j \in 0..(cpu.particleCount - 1) :
                  LET density == Density(P.positions, i, Neighbors(P.positions, P.grid, i, c), c)
                      d == Sqrt(Dist2(P.positions, i, j))
                  IN (i # j /\ density > c.effectiveRestDensity /\ d >= 1 /\ d < h) =>
                       Dot(CpuPressureMove(P.positions, i, j, ClampedPressure(density, c), c),
                           VSub(P.positions[i], P.positions[j])) >= 0
       /\ kind = "gpu" =>
            \A c \in {GpuStepLocals(last'.step.dt, last'.step.config, last'.step.gravityVec)} :
              \A tex \in {read(GpuPredict(gpu, c).positionTarget)} :
                \A t, j \in 0..(gpu.particleCount - 1) :
                  LET density == densityShader(tex, t, c.h, c.restDensity, gpu.particleCount)[1]
                      pressure_i == Div(Max(0, density - c.restDensity) * c.stiffness, 10000)
                      diff == VSub(Xyz(tex[t]), Xyz(tex[j]))
                      d == Sqrt(Dot(diff, diff))
                  IN (t # j /\ density > c.restDensity /\ d >= 1 /\ d < c.h) =>
                       Dot(GpuPressureForce(tex, t, j, pressure_i, ForceUniforms(gpu, c)), diff)
                         >= 0]_vars

\* particleRadius / visualRatio
RadiusOverRatio(config) == Div(config.particleRadius * 1000, config.visualRatio)

\* C25: for every positive particleRadius and positive smoothness ratio, also
\* a ratio below 1, step derives the physics radius particleRadius /
\* visualRatio and uses it for the collision distance (twice the radius) and
\* for the boundary offset, in both engines: after a step every active
\* particle is at least that radius inside the container.
C25_PhysicsRadiusFromRatio ==
  (last.op = "step" /\ last.start > 0) =>
    LET radius == RadiusOverRatio(last.step.config)
        inner == Div(last.step.config.boundarySize, 2) - radius
    IN /\ kind = "cpu" =>
            LET c == StepLocals(last.step.dt, last.step.config, last.step.gravityVec)
            IN /\ c.minDist = 2 * radius
               /\ c.boundaryOffset = radius
               /\ inner >= 0 =>
                    \A i \in CpuSlots : i < cpu.particleCount =>
                      \A a \in Axes : Abs(cpu.positions[i][a]) <= inner
       /\ kind = "gpu" =>
            LET c == GpuStepLocals(last.step.dt, last.step.config, last.step.gravityVec)
            IN /\ c.minDist = 2 * radius
               /\ c.boundaryOffset = radius
               /\ inner >= 0 =>
                    \A t \in GpuSlots : t < gpu.particleCount =>
                      \A a \in Axes : Abs(GpuPos(gpu, t)[a]) <= inner

\* surfaceTension coefficients a run can be repeated with
Tensions == {0, 50, 500, 5000}

\* C26: in the sequential engine the displacement of a particle in a
\* constraint iteration includes the surface-tension term, the accumulated
\* cohesion vector of its neighbours scaled by config.surfaceTension: for a
\* step on a pair of particles in range of each other, some other
\* surfaceTension coefficient gives a different result of the step.
C26_CpuSurfaceTensionActs ==
  [][(kind = "cpu" /\ last'.op = "step" /\ cpu.particleCount >= 2) =>
       \A P \in {CpuPredictStage(cpu, StepLocals(last'.step.dt, last'.step.config,
                                                last'.step.gravityVec))} :
         (Sqrt(Dist2(P.positions, 0, 1)) >= 1 /\ Sqrt(Dist2(P.positions, 0, 1)) < h) =>
           \E s \in Tensions :
             FluidEngine_step(cpu, last'.step.dt,
                              [last'.step.config EXCEPT !.surfaceTension = s],
                              last'.step.gravityVec) # cpu']_vars

\* the uniforms each compute shader of step declares and reads
ShaderUniforms ==
  [copy |-> {"tPosition"},
   velocityIntegrate |-> {"tVelocity", "uGravity", "uDt"},
   integrate |-> {"tPosition", "tVelocity", "uGravity", "uDt", "uResolution"},
   density |-> {"tPosition", "tVelocity", "uKernelRadius", "uRestDensity", "uParticleRes",
                "uParticleCount"},
   force |-> {"tPosition", "tVelocity", "tDensity", "uKernelRadius", "uStiffness",
              "uRestDensity", "uMinDist", "uCollisionStrength", "uSurfaceTension",
              "uCohesionRadius", "uParticleRes", "uParticleCount"},
   applyForces |-> {"tPosition", "tForce"},
   boundary |-> {"tPosition", "tVelocity", "uBoundary", "uBoundaryOffset", "uWallRepelDist"},
   velocityUpdate |-> {"tPosition", "tOldPosition", "tVelocity", "uDt", "uViscosity",
                       "uBoundary", "uBoundaryOffset"}]

\* the uniforms the constructor gives each material
MaterialUniforms ==
  [copy |-> {"tPosition"},
   velocityIntegrate |-> {"tVelocity", "uGravity", "uDt"},
   integrate |-> {"tPosition", "tVelocity", "uGravity", "uDt", "uResolution"},
   density |-> {"tPosition", "tVelocity", "uKernelRadius", "uRestDensity", "uParticleRes",
                "uParticleCount"},
   force |-> {"tPosition", "tVelocity", "tDensity", "uKernelRadius", "uStiffness",
              "uRestDensity", "uMinDist", "uCollisionStrength", "uSurfaceTension",
              "uParticleRes", "uParticleCount"},
   applyForces |-> {"tPosition", "tForce"},
   boundary |-> {"tPosition", "tVelocity", "uBoundary", "uBoundaryOffset", "uWallRepelDist"},
   velocityUpdate |-> {"tPosition", "tOldPosition", "tVelocity", "uDt", "uViscosity",
                       "uBoundary", "uBoundaryOffset"}]

\* the uniforms step assigns before it renders each pass
StepAssigns ==
  [copy |-> {"tPosition"},
   velocityIntegrate |-> {"tVelocity", "uGravity", "uDt"},
   integrate |-> {"tPosition", "tVelocity", "uGravity", "uDt"},
   density |-> {"tPosition", "tVelocity", "uKernelRadius", "uRestDensity", "uParticleCount"},
   force |-> {"tPosition", "tVelocity", "tDensity", "uKernelRadius", "uStiffness",
              "uRestDensity", "uMinDist", "uCollisionStrength", "uSurfaceTension",
              "uParticleCount"},
   applyForces |-> {"tPosition", "tForce"},
   boundary |-> {"tPosition", "tVelocity", "uBoundary", "uBoundaryOffset", "uWallRepelDist"},
   velocityUpdate |-> {"tPosition", "tOldPosition", "tVelocity", "uDt", "uViscosity",
                       "uBoundary", "uBoundaryOffset"}]

\* C27: in the parallel engine, before each compute pass of a step is
\* rendered, every uniform its shader reads has been assigned by the engine
\* (by the constructor or by step), and the config-dependent ones of the force
\* pass hold the values derived from the config of the current call.
C27_UniformsAssigned ==
  (kind = "gpu" /\ last.op = "step" /\ last.start > 0) =>
    LET c == GpuStepLocals(last.step.dt, last.step.config, last.step.gravityVec)
        u == ForceUniforms(gpu, c)
    IN /\ \A p \in DOMAIN ShaderUniforms :
            ShaderUniforms[p] \subseteq (MaterialUniforms[p] \cup StepAssigns[p])
       /\ u.uStiffness = last.step.config.stiffness
       /\ u.uRestDensity = last.step.config.restDensity
       /\ u.uSurfaceTension = last.step.config.surfaceTension
       /\ u.uMinDist = c.minDist
       /\ u.uCollisionStrength = c.collisionStrength
       /\ u.uParticleCount = gpu.particleCount

\* whether pos is, on each axis, within the jitter of a node of the lattice of
\* dimension ceil(cbrt(count)) centred on the origin
OnLattice(pos, origin, count, baseRadius) ==
  LET spacing == getParticleSpacing(baseRadius)
      gridDim == CeilCbrt(count)
      offset == Div((gridDim - 1) * spacing, 2)
  IN \A a \in Axes : \E g \in 0..(gridDim - 1) :
       Abs(pos[a] - (origin[a] - offset + g * spacing)) <= Div(spacing * 15, 100)

\* C28: the lattice of addParticles(count, origin) has the dimension
\* ceil(cbrt(count)) of the requested count in both engines, also when
\* capacity truncates the request: every added particle sits, up to the
\* jitter, on a node of that lattice centred on the origin.
C28_LatticeFromRequestedCount ==
  (last.op = "addParticles" /\ last.count >= 1) =>
    /\ kind = "cpu" =>
         \A i \in CpuSlots : (i >= last.start /\ i < cpu.particleCount) =>
           OnLattice(cpu.positions[i], last.origin, last.count, cpu.baseRadius)
    /\ kind = "gpu" =>
         \A t \in GpuSlots : (t >= last.start /\ t < gpu.particleCount) =>
           OnLattice(Xyz(GpuPos(gpu, t)), last.origin, last.count, gpu.baseRadius)

\* C29: when a step on a non-empty store returns, the stored previous
\* position of every active particle is the position the particle had
\* immediately before the step was called, in both engines.
C29_PreviousIsPreStep ==
  [][(last'.op = "step" /\ Count > 0) =>
       /\ kind = "cpu" =>
            \A i \in CpuSlots : i < cpu.particleCount =>
              cpu'.oldPositions[i] = cpu.positions[i]
       /\ kind = "gpu" =>
            \A t \in GpuSlots : t < gpu.particleCount =>
              Xyz(GpuOld(gpu', t)) = Xyz(GpuPos(gpu, t))]_vars

\* a second step has returned, and it moved particle 0 away from the previous
\* position now stored for it, which is not the one stored at spawn
C29_Witness ==
  /\ last.op = "step" /\ last.start > 0 /\ ops >= 3
  /\ \/ kind = "cpu" /\ cpu.oldPositions[0] # cpu.positions[0]
     \/ kind = "gpu" /\ Xyz(GpuOld(gpu, 0)) # Xyz(GpuPos(gpu, 0))

\* C30: addParticles leaves the position, the previous position and the
\* velocity of every particle that was already active before the call
\* unchanged, in both engines, whether or not a step was run before the call.
C30_AddKeepsActiveParticles ==
  [][last'.op = "addParticles" =>
       /\ kind = "cpu" =>
            \A i \in CpuSlots : i < cpu.particleCount =>
              /\ cpu'.positions[i] = cpu.positions[i]
              /\ cpu'.oldPositions[i] = cpu.oldPositions[i]
              /\ cpu'.velocities[i] = cpu.velocities[i]
       /\ kind = "gpu" =>
            \A t \in GpuSlots : t < gpu.particleCount =>
              /\ GpuPos(gpu', t) = GpuPos(gpu, t)
              /\ GpuOld(gpu', t) = GpuOld(gpu, t)
              /\ GpuVel(gpu', t) = GpuVel(gpu, t)]_vars

====
